---- MODULE Spec2Model ----
(***************************************************************************)
(* Model of the command-line dispatcher of src/src/index.ts: class Command *)
(* (getCommandName, getCommandLineArguments, getCommandConfig,             *)
(* getRawArguments, getCommandParameters, getCommandExecutable) and run.   *)
(*                                                                         *)
(* A JavaScript string is a sequence of one-character strings, so that the *)
(* three regular expressions, toLowerCase and Number are computed on the   *)
(* characters.  A JavaScript value is a tagged record; undefined and null  *)
(* are two distinct values.  A plain object is a sequence of <<key, value>>*)
(* pairs in property order.  Property names are assumed not to be names of *)
(* Object.prototype members (toString, constructor, ...).                  *)
(***************************************************************************)
EXTENDS Integers, Sequences, FiniteSets, TLC

(* ------------------------------ bounds -------------------------------- *)

\* Largest number of command-line elements after argv[0] and argv[1].
MaxArgs == 3

(* --------------------------- JavaScript values ------------------------- *)

Undefined == [t |-> "undefined"]
Null == [t |-> "null"]
Bool(b) == [t |-> "boolean", b |-> b]
Num(n) == [t |-> "number", n |-> n]
Str(s) == [t |-> "string", s |-> s]
NaN == [t |-> "number", nan |-> TRUE]

(* ------------------------------ characters ----------------------------- *)

LowerLetters ==
    <<"a","b","c","d","e","f","g","h","i","j","k","l","m",
      "n","o","p","q","r","s","t","u","v","w","x","y","z">>

UpperLetters ==
    <<"A","B","C","D","E","F","G","H","I","J","K","L","M",
      "N","O","P","Q","R","S","T","U","V","W","X","Y","Z">>

Digits == <<"0","1","2","3","4","5","6","7","8","9">>

Range(seq) == { seq[i] : i \in DOMAIN seq }

IndexOf(seq, c) == CHOOSE i \in DOMAIN seq : seq[i] = c

\* [a-zA-Z]
IsLetter(c) == c \in Range(LowerLetters) \cup Range(UpperLetters)

\* [a-zA-Z0-9]
IsAlnum(c) == IsLetter(c) \/ c \in Range(Digits)

\* [a-zA-Z0-9_-]
IsNameChar(c) == IsAlnum(c) \/ c \in {"_", "-"}

\* A character "." of a regular expression matches: anything but a line
\* terminator.
IsLineTerminator(c) == c \in {"\n", "\r"}

\* String.prototype.toLowerCase, on the characters of the model.
LowerChar(c) ==
    IF c \in Range(UpperLetters) THEN LowerLetters[IndexOf(UpperLetters, c)] ELSE c

toLowerCase(s) == [i \in DOMAIN s |-> LowerChar(s[i])]

\* The part of s from index from to index to (empty when from > to).
Slice(s, from, to) == [i \in 1..(to - from + 1) |-> s[from + i - 1]]

\* The least element of a non-empty set of integers.
SetMin(S) == CHOOSE i \in S : \A j \in S : i <= j

\* The greatest element of a non-empty set of integers.
SetMax(S) == CHOOSE i \in S : \A j \in S : i >= j

AllIn(s, set) == \A i \in DOMAIN s : s[i] \in set

(* -------------------------- regular expressions ------------------------ *)

\* An argument name as the two argument patterns capture it:
\* [a-zA-Z0-9](?:[a-zA-Z0-9_-]*)?
IsArgumentName(s) ==
    /\ Len(s) >= 1
    /\ IsAlnum(s[1])
    /\ \A i \in 2..Len(s) : IsNameChar(s[i])

\* s.match(COMMAND_NAME_REGEXP) !== null
COMMAND_NAME_REGEXP(s) ==
    /\ Len(s) >= 1
    /\ IsLetter(s[1])
    /\ \A i \in 2..Len(s) : IsNameChar(s[i])

NoMatch == [matched |-> FALSE]

\* Where the name of a token --name... ends: before the first "=" after the
\* two dashes, or at the end of the token (the name cannot hold "=").
FirstEquals(s) == SetMin({ i \in 3..Len(s) : s[i] = "=" } \cup {Len(s) + 1})

\* The groups of a token that starts with "--" and whose first "=", if any, is
\* at index eq: the name must be an argument name and "=" must be followed
\* by one or more characters none of which is a line terminator.
ArgumentNameGroups(s, eq) ==
    IF ~IsArgumentName(Slice(s, 3, eq - 1)) THEN NoMatch
    ELSE IF eq > Len(s)
    THEN [matched |-> TRUE, m1 |-> Slice(s, 3, eq - 1), m2 |-> Undefined]
    ELSE IF eq < Len(s) /\ \A i \in (eq + 1)..Len(s) : ~IsLineTerminator(s[i])
    THEN [matched |-> TRUE, m1 |-> Slice(s, 3, eq - 1), m2 |-> Str(Slice(s, eq + 1, Len(s)))]
    ELSE NoMatch

\* s.match(COMMAND_ARGUMENT_NAME_REGEXP): matches[1] is the name, matches[2]
\* the text after the first "=" (undefined when the token has no "=").
COMMAND_ARGUMENT_NAME_REGEXP(s) ==
    IF Len(s) < 3 \/ s[1] # "-" \/ s[2] # "-" THEN NoMatch
    ELSE ArgumentNameGroups(s, FirstEquals(s))

\* s.match(COMMAND_ARGUMENT_SHORTHAND_REGEXP): matches[1] is the name and there
\* is no second group, so matches[2] is undefined.
COMMAND_ARGUMENT_SHORTHAND_REGEXP(s) ==
    IF Len(s) >= 2 /\ s[1] = "-" /\ IsArgumentName(Slice(s, 2, Len(s)))
    THEN [matched |-> TRUE, m1 |-> Slice(s, 2, Len(s)), m2 |-> Undefined]
    ELSE NoMatch

\* a ?? b on two match results (null is a result that did not match).
Coalesce(a, b) == IF a.matched THEN a ELSE b

\* commandLineArg.match(NAME) ?? commandLineArg.match(SHORTHAND)
MatchArgument(s) ==
    Coalesce(COMMAND_ARGUMENT_NAME_REGEXP(s), COMMAND_ARGUMENT_SHORTHAND_REGEXP(s))

\* s matches one of the two argument patterns.
IsArgument(s) ==
    \/ COMMAND_ARGUMENT_NAME_REGEXP(s).matched
    \/ COMMAND_ARGUMENT_SHORTHAND_REGEXP(s).matched

(* ------------------------------- Number() ------------------------------ *)

IsWhiteSpace(c) == c \in {" ", "\t", "\n", "\r", "\f"}

\* s between the first and the last of the indices keep.
TrimTo(s, keep) == IF keep = {} THEN <<>> ELSE Slice(s, SetMin(keep), SetMax(keep))

\* s without its leading and trailing white space.
Trim(s) == TrimTo(s, { i \in DOMAIN s : ~IsWhiteSpace(s[i]) })

IsDigits(s) == Len(s) >= 1 /\ AllIn(s, Range(Digits))

\* The value of a string of decimal digits.
RECURSIVE DecimalValue(_)
DecimalValue(s) ==
    IF s = <<>> THEN 0
    ELSE 10 * DecimalValue(Slice(s, 1, Len(s) - 1)) + (IndexOf(Digits, s[Len(s)]) - 1)

StripSign(s) == IF Len(s) >= 1 /\ s[1] \in {"+", "-"} THEN Slice(s, 2, Len(s)) ELSE s

\* digits | digits . [digits] | . digits
IsMantissa(s) ==
    /\ Cardinality({ i \in DOMAIN s : s[i] = "." }) <= 1
    /\ \E i \in DOMAIN s : s[i] \in Range(Digits)
    /\ \A i \in DOMAIN s : s[i] \in Range(Digits) \cup {"."}

\* A mantissa up to index e - 1 and, when e is an index of s, the exponent
\* part [+-]digits after it.
IsDecimalWithExponentAt(s, e) ==
    /\ IsMantissa(Slice(s, 1, e - 1))
    /\ e > Len(s) \/ IsDigits(StripSign(Slice(s, e + 1, Len(s))))

\* An unsigned StrDecimalLiteral other than Infinity: a mantissa and an
\* optional exponent part e[+-]digits.
IsUnsignedDecimal(s) ==
    IsDecimalWithExponentAt(s, SetMin({ i \in DOMAIN s : s[i] \in {"e", "E"} } \cup {Len(s) + 1}))

HexDigits == Range(Digits) \cup {"a","b","c","d","e","f","A","B","C","D","E","F"}

\* 0x.., 0o.., 0b.. (unsigned).
IsNonDecimal(s) ==
    /\ Len(s) >= 3
    /\ s[1] = "0"
    /\ \/ s[2] \in {"x", "X"} /\ \A i \in 3..Len(s) : s[i] \in HexDigits
       \/ s[2] \in {"o", "O"} /\ \A i \in 3..Len(s) : s[i] \in {"0","1","2","3","4","5","6","7"}
       \/ s[2] \in {"b", "B"} /\ \A i \in 3..Len(s) : s[i] \in {"0","1"}

Infinity == <<"I","n","f","i","n","i","t","y">>

\* The number a string without surrounding white space converts to.  A string
\* of decimal digits with an optional sign has its integer value, the empty
\* string is 0, any other numeric literal is a number denoted by its text, and
\* everything else is NaN.
StringToNumber(t) ==
    IF t = <<>> THEN Num(0)
    ELSE IF IsDigits(StripSign(t))
    THEN Num(IF t[1] = "-" THEN 0 - DecimalValue(StripSign(t)) ELSE DecimalValue(StripSign(t)))
    ELSE IF StripSign(t) = Infinity \/ IsUnsignedDecimal(StripSign(t)) \/ IsNonDecimal(t)
    THEN [t |-> "number", literal |-> t]
    ELSE NaN

\* Number(string)
Number(s) == StringToNumber(Trim(s))

\* Number.isNaN(v)
isNaN(v) == v = NaN

(* ---------------------------- plain objects ---------------------------- *)

\* An object is a sequence of <<key, value>> pairs in insertion order.
EmptyObject == <<>>

HasOwn(obj, k) == \E i \in DOMAIN obj : obj[i][1] = k

\* obj[k]: undefined when obj has no property k.
Get(obj, k) ==
    IF HasOwn(obj, k) THEN obj[CHOOSE i \in DOMAIN obj : obj[i][1] = k][2]
    ELSE Undefined

\* An assignment that does not replace the value of an existing property.
KeepFirst(obj, k, v) ==
    IF HasOwn(obj, k) THEN obj ELSE Append(obj, <<k, v>>)

\* obj[k] = v: an existing property keeps its place, a new one goes last.
Put(obj, k, v) ==
    IF HasOwn(obj, k)
    THEN [i \in DOMAIN obj |-> IF obj[i][1] = k THEN <<k, v>> ELSE obj[i]]
    ELSE Append(obj, <<k, v>>)

\* A canonical array index: decimal digits without a leading zero.
IsArrayIndex(k) == IsDigits(k) /\ (Len(k) = 1 \/ k[1] # "0")

\* Of pairs whose keys are array indices, the one with the least index.
LeastIndexPair(pairs) ==
    pairs[CHOOSE i \in DOMAIN pairs :
            \A j \in DOMAIN pairs : DecimalValue(pairs[i][1]) <= DecimalValue(pairs[j][1])]

\* The pairs of obj whose keys are array indices, in ascending numeric order.
RECURSIVE SortIndexKeys(_)
SortIndexKeys(pairs) ==
    IF pairs = <<>> THEN <<>>
    ELSE <<LeastIndexPair(pairs)>> \o
         SortIndexKeys(SelectSeq(pairs, LAMBDA p : p # LeastIndexPair(pairs)))

\* Object.entries(obj): array-index keys first in ascending order, then the
\* other keys in insertion order.
Entries(obj) ==
    SortIndexKeys(SelectSeq(obj, LAMBDA p : IsArrayIndex(p[1])))
        \o SelectSeq(obj, LAMBDA p : ~IsArrayIndex(p[1]))

\* The keys of a sequence of <<key, value>> pairs.
FirstOfEach(pairs) == [i \in DOMAIN pairs |-> pairs[i][1]]

\* Object.keys(obj)
Keys(obj) == FirstOfEach(Entries(obj))

\* array.includes(x)
includes(array, x) == \E i \in DOMAIN array : array[i] = x

(* ------------------------------- arrays -------------------------------- *)

\* array[i] with JavaScript's indices from 0: undefined past the end.
At(array, i) == IF i + 1 \in DOMAIN array THEN Str(array[i + 1]) ELSE Undefined

\* array.slice(start)
slice(array, start) ==
    IF start >= Len(array) THEN <<>> ELSE Slice(array, start + 1, Len(array))

(* ------------------------------- errors -------------------------------- *)

NoError == [kind |-> "none"]

\* "No command name provided."
NoCommandNameError == [kind |-> "NoCommandName"]

\* `Unknown command: ${commandName}`
UnknownCommandError(commandName) ==
    [kind |-> "UnknownCommand", commandName |-> commandName]

\* `Invalid argument: ${commandLineArg}`
InvalidArgumentError(commandLineArg) ==
    [kind |-> "InvalidArgument", argument |-> commandLineArg]

\* `Invalid boolean value provided for parameter ${parameterName}: ${rawArgument}`
InvalidBooleanError(parameterName, rawArgument) ==
    [kind |-> "InvalidBoolean", parameterName |-> parameterName, rawArgument |-> rawArgument]

\* `Invalid numeric value provided for parameter ${parameterName}: ${rawArgument}`
InvalidNumericError(parameterName, rawArgument) ==
    [kind |-> "InvalidNumeric", parameterName |-> parameterName, rawArgument |-> rawArgument]

\* `Missing arguments: ${names.join(", ")}`
MissingArgumentsError(names) == [kind |-> "MissingArguments", names |-> names]

\* `Unknown arguments: ${names.join(", ")}`
UnknownArgumentsError(names) == [kind |-> "UnknownArguments", names |-> names]

Returned(value) == [threw |-> FALSE, value |-> value]
Threw(e) == [threw |-> TRUE, error |-> e]

(* --------------------------- Command methods --------------------------- *)

Default == <<"d","e","f","a","u","l","t">>

\* The tests of getCommandName with the final throw replaced by the fallback
\* to "default".
CommandNameOrDefault(arg) ==
    IF arg # Undefined /\ COMMAND_NAME_REGEXP(arg.s)
    THEN Returned(arg.s)
    ELSE Returned(Default)

\* The two tests of getCommandName on argv[2].
CommandNameOf(arg) ==
    IF arg # Undefined /\ COMMAND_NAME_REGEXP(arg.s)
    THEN Returned(arg.s)
    ELSE IF arg = Undefined \/ IsArgument(arg.s)
    THEN Returned(Default)
    ELSE Threw(NoCommandNameError)

\* Command.getCommandName
getCommandName(argv) == CommandNameOf(At(argv, 2))

\* getCommandLineArguments as it would be if the first element after the
\* script were always taken for a command name.
AlwaysAfterName(argv, commandName) == slice(argv, 3)

\* Command.getCommandLineArguments
getCommandLineArguments(argv, commandName) ==
    IF commandName = Default THEN slice(argv, 2) ELSE slice(argv, 3)

\* getCommandConfig without its test: a command that is not registered gets
\* a configuration with no parameters.
UncheckedConfig(commandConfig, commandName) ==
    IF commandConfig = Undefined
    THEN Returned([parameters |-> EmptyObject, command |-> "none"])
    ELSE Returned(commandConfig)

\* The test of getCommandConfig on this.commandConfigs[commandName].
CheckedConfig(commandConfig, commandName) ==
    IF commandConfig = Undefined
    THEN Threw(UnknownCommandError(commandName))
    ELSE Returned(commandConfig)

\* Command.getCommandConfig
getCommandConfig(configs, commandName) == CheckedConfig(Get(configs, commandName), commandName)

\* A reduce callback that leaves out an element matching neither pattern
\* instead of throwing.
SkipInvalid(result, commandLineArg, matches, next) ==
    IF ~matches.matched
    THEN [threw |-> FALSE, value |-> result, skipNextArg |-> FALSE]
    ELSE IF matches.m2 # Undefined
    THEN [threw |-> FALSE, value |-> Put(result, matches.m1, matches.m2), skipNextArg |-> FALSE]
    ELSE IF next # Undefined /\ ~IsArgument(next.s)
    THEN [threw |-> FALSE, value |-> Put(result, matches.m1, next), skipNextArg |-> TRUE]
    ELSE [threw |-> FALSE, value |-> Put(result, matches.m1, Null), skipNextArg |-> FALSE]

\* A reduce callback that never looks at the element after the current one.
StepWithoutLookahead(result, commandLineArg, matches, next) ==
    IF ~matches.matched
    THEN Threw(InvalidArgumentError(commandLineArg))
    ELSE IF matches.m2 # Undefined
    THEN [threw |-> FALSE, value |-> Put(result, matches.m1, matches.m2), skipNextArg |-> FALSE]
    ELSE [threw |-> FALSE, value |-> Put(result, matches.m1, Null), skipNextArg |-> FALSE]

\* What one call of the reduce callback of getRawArguments does with an
\* element that is not skipped: the property it sets and whether the next
\* element is to be skipped, or the error it throws.  matches is the element's
\* match, next the element after it (undefined at the end).
RawArgumentStep(result, commandLineArg, matches, next) ==
    IF ~matches.matched
    THEN Threw(InvalidArgumentError(commandLineArg))
    ELSE IF matches.m2 # Undefined
    THEN [threw |-> FALSE, value |-> Put(result, matches.m1, matches.m2), skipNextArg |-> FALSE]
    ELSE IF next # Undefined /\ ~IsArgument(next.s)
    THEN [threw |-> FALSE, value |-> Put(result, matches.m1, next), skipNextArg |-> TRUE]
    ELSE [threw |-> FALSE, value |-> Put(result, matches.m1, Null), skipNextArg |-> FALSE]

\* The reduce of getRawArguments from the element at index (from 0) to the
\* end.  The value is the object built, or the error thrown; examined lists
\* the indices whose element was matched against the patterns.
RECURSIVE ReduceRawArguments(_, _, _, _, _)
RECURSIVE ContinueReduce(_, _, _, _)
ReduceRawArguments(commandLineArguments, index, result, skipNextArg, examined) ==
    IF index >= Len(commandLineArguments)
    THEN [threw |-> FALSE, value |-> result, examined |-> examined]
    ELSE IF skipNextArg
    THEN ReduceRawArguments(commandLineArguments, index + 1, result, FALSE, examined)
    ELSE ContinueReduce(commandLineArguments, index, Append(examined, index),
                        RawArgumentStep(result,
                                        At(commandLineArguments, index).s,
                                        MatchArgument(At(commandLineArguments, index).s),
                                        At(commandLineArguments, index + 1)))

ContinueReduce(commandLineArguments, index, examined, step) ==
    IF step.threw
    THEN [threw |-> TRUE, error |-> step.error, examined |-> examined]
    ELSE ReduceRawArguments(commandLineArguments, index + 1, step.value,
                            step.skipNextArg, examined)

\* Command.getRawArguments
getRawArguments(commandLineArguments) ==
    ReduceRawArguments(commandLineArguments, 0, EmptyObject, FALSE, <<>>)

TrueWords == << <<"t","r","u","e">>, <<"y","e","s">>, <<"y">>, <<"o","n">>, <<"1">> >>

FalseWords == << <<"f","a","l","s","e">>, <<"n","o">>, <<"n">>, <<"o","f","f">>, <<"0">> >>

\* case "boolean": lowered is rawArgument.toLowerCase().
ConvertBoolean(commandParameters, parameterName, rawArgument, lowered) ==
    IF includes(TrueWords, lowered)
    THEN Returned(Put(commandParameters, parameterName, Bool(TRUE)))
    ELSE IF includes(FalseWords, lowered)
    THEN Returned(Put(commandParameters, parameterName, Bool(FALSE)))
    ELSE Threw(InvalidBooleanError(parameterName, rawArgument.s))

\* case "number" without the test for NaN.
StoreNumberUnchecked(commandParameters, parameterName, rawArgument, numberValue) ==
    Returned(Put(commandParameters, parameterName, numberValue))

\* case "number": numberValue is Number(rawArgument).
ConvertNumber(commandParameters, parameterName, rawArgument, numberValue) ==
    IF isNaN(numberValue)
    THEN Threw(InvalidNumericError(parameterName, rawArgument.s))
    ELSE Returned(Put(commandParameters, parameterName, numberValue))

\* case "string"
ConvertString(commandParameters, parameterName, rawArgument) ==
    Returned(Put(commandParameters, parameterName, rawArgument))

\* The switch on parameter.type of getCommandParameters: the raw string
\* converted to the parameter's type and stored, or the error thrown.
ConvertRawArgument(commandParameters, parameterName, parameter, rawArgument) ==
    CASE parameter.type = "boolean" ->
            ConvertBoolean(commandParameters, parameterName, rawArgument,
                           toLowerCase(rawArgument.s))
      [] parameter.type = "number" ->
            ConvertNumber(commandParameters, parameterName, rawArgument,
                          Number(rawArgument.s))
      [] parameter.type = "string" ->
            ConvertString(commandParameters, parameterName, rawArgument)
      [] OTHER -> Returned(commandParameters)

\* The callback without the seeding of boolean parameters.
SeedNothing(commandParameters, parameterName, parameter) == commandParameters

\* "All boolean parameters are false by default."
SeedBoolean(commandParameters, parameterName, parameter) ==
    IF parameter.type = "boolean"
    THEN Put(commandParameters, parameterName, Bool(FALSE))
    ELSE commandParameters

\* The default applied only to a parameter that has no value yet, so that it
\* does not replace the false a boolean parameter is seeded with.
ApplyDefaultIfUnset(commandParameters, parameterName, parameter) ==
    IF parameter.defaultValue # Undefined /\ Get(commandParameters, parameterName) = Undefined
    THEN Put(commandParameters, parameterName, parameter.defaultValue)
    ELSE commandParameters

\* "Apply default value if it exists."
ApplyDefault(commandParameters, parameterName, parameter) ==
    IF parameter.defaultValue # Undefined
    THEN Put(commandParameters, parameterName, parameter.defaultValue)
    ELSE commandParameters

\* "Apply command line input value if it exists."
ApplyRawArgument(commandParameters, parameterName, parameter, rawArgument) ==
    IF rawArgument # Undefined /\ rawArgument # Null
    THEN ConvertRawArgument(commandParameters, parameterName, parameter, rawArgument)
    ELSE Returned(commandParameters)

\* "Handling a special case for boolean flags with no value.": the statement
\* under the test is the comparison commandParameters[parameterName] === true,
\* whose result is dropped, so the object is left as it is.
FlagWithNoValue(commandParameters, parameterName, parameter, rawArgument) ==
    IF rawArgument = Null /\ parameter.type = "boolean"
    THEN commandParameters
    ELSE commandParameters

\* A callback that keeps no parameter as missing.
NeverMissing(commandParameters, parameterName) == FALSE

\* The callback's return value: whether the parameter is missing.
IsMissing(commandParameters, parameterName) ==
    Get(commandParameters, parameterName) = Undefined

\* The end of the filter callback: the object after it and whether the
\* parameter is kept as missing.
CallbackResult(commandParameters, parameterName) ==
    [threw |-> FALSE, value |-> commandParameters,
     missing |-> IsMissing(commandParameters, parameterName)]

\* The filter callback after the raw value was applied (or threw).
AfterRawArgument(applied, parameterName, parameter, rawArgument) ==
    IF applied.threw THEN applied
    ELSE CallbackResult(FlagWithNoValue(applied.value, parameterName, parameter, rawArgument),
                        parameterName)

\* The filter callback given rawArgument = rawArguments[parameterName].
ResolveWith(commandParameters, parameterName, parameter, rawArgument) ==
    AfterRawArgument(
        ApplyRawArgument(
            ApplyDefault(SeedBoolean(commandParameters, parameterName, parameter),
                         parameterName, parameter),
            parameterName, parameter, rawArgument),
        parameterName, parameter, rawArgument)

\* The callback of the filter of getCommandParameters for one parameter: the
\* object after it and whether the parameter is kept as missing, or the
\* error thrown.
ResolveParameter(commandParameters, parameterName, parameter, rawArguments) ==
    ResolveWith(commandParameters, parameterName, parameter, Get(rawArguments, parameterName))

\* Object.entries(commandParametersConfig).filter(callback), from entry i on.
RECURSIVE FilterMissing(_, _, _, _, _)
RECURSIVE ContinueFilter(_, _, _, _, _)
FilterMissing(entries, i, rawArguments, commandParameters, missing) ==
    IF i > Len(entries)
    THEN [threw |-> FALSE, value |-> commandParameters, missingArguments |-> missing]
    ELSE ContinueFilter(entries, i, rawArguments, missing,
                        ResolveParameter(commandParameters, entries[i][1], entries[i][2],
                                         rawArguments))

ContinueFilter(entries, i, rawArguments, missing, r) ==
    IF r.threw THEN r
    ELSE FilterMissing(entries, i + 1, rawArguments, r.value,
                       IF r.missing THEN Append(missing, entries[i][1]) ELSE missing)

\* The names among argNames that are not among parameterNames.
NotIncluded(argNames, parameterNames) ==
    SelectSeq(argNames, LAMBDA argName : ~includes(parameterNames, argName))

\* Object.keys(rawArguments).filter(name not among the declared parameters)
UnknownArguments(commandParametersConfig, rawArguments) ==
    NotIncluded(Keys(rawArguments), Keys(commandParametersConfig))

\* The two tests in the other order: the unknown arguments are reported first.
ThrowUnknownOrMissing(missingArguments, unknownArguments, commandParameters) ==
    IF Len(unknownArguments) > 0
    THEN Threw(UnknownArgumentsError(unknownArguments))
    ELSE IF Len(missingArguments) > 0
    THEN Threw(MissingArgumentsError(missingArguments))
    ELSE Returned(commandParameters)

\* getCommandParameters without the test of the missing arguments.
ThrowUnknownOnly(missingArguments, unknownArguments, commandParameters) ==
    IF Len(unknownArguments) > 0
    THEN Threw(UnknownArgumentsError(unknownArguments))
    ELSE Returned(commandParameters)

\* getCommandParameters without its two final tests.
ReturnUnchecked(missingArguments, unknownArguments, commandParameters) ==
    Returned(commandParameters)

\* The two tests that end getCommandParameters: which list is thrown, if any.
ThrowMissingOrUnknown(missingArguments, unknownArguments, commandParameters) ==
    IF Len(missingArguments) > 0
    THEN Threw(MissingArgumentsError(missingArguments))
    ELSE IF Len(unknownArguments) > 0
    THEN Threw(UnknownArgumentsError(unknownArguments))
    ELSE Returned(commandParameters)

\* The outcome of getCommandParameters with the two lists it computed.
WithLists(out, missingArguments, unknownArguments) ==
    [threw |-> out.threw,
     error |-> IF out.threw THEN out.error ELSE NoError,
     value |-> IF out.threw THEN EmptyObject ELSE out.value,
     missingArguments |-> missingArguments,
     unknownArguments |-> unknownArguments]

\* getCommandParameters after the pass over the parameters: a conversion
\* error leaves it at once, before the unknown arguments are computed.
AfterFilter(pass, unknownArguments) ==
    IF pass.threw
    THEN WithLists(pass, <<>>, <<>>)
    ELSE WithLists(ThrowMissingOrUnknown(pass.missingArguments, unknownArguments, pass.value),
                   pass.missingArguments, unknownArguments)

\* Command.getCommandParameters.  The two lists are kept in the result so
\* that they can be compared with the error.
getCommandParameters(commandParametersConfig, rawArguments) ==
    AfterFilter(FilterMissing(Entries(commandParametersConfig), 1, rawArguments,
                              EmptyObject, <<>>),
                UnknownArguments(commandParametersConfig, rawArguments))

(* ------------------------- the inputs of a run -------------------------- *)

Go == <<"g","o">>

\* Parameter configurations: type and defaultValue (undefined when the
\* configuration declares none, null for an optional parameter).
Parameter(type, defaultValue) == [type |-> type, defaultValue |-> defaultValue]

\* go takes a required string s, a flag l and an optional number o; default
\* takes a required number a, a boolean b that is on by default and a string
\* t with a default text.
Configs1 ==
    << <<Go, [parameters |->
                << << <<"s">>, Parameter("string", Undefined) >>,
                   << <<"l">>, Parameter("boolean", Undefined) >>,
                   << <<"o">>, Parameter("number", Null) >> >>,
              command |-> "goCommand"] >>,
       <<Default, [parameters |->
                << << <<"a">>, Parameter("number", Undefined) >>,
                   << <<"b">>, Parameter("boolean", Bool(TRUE)) >>,
                   << <<"t">>, Parameter("string", Str(<<"h","i">>)) >> >>,
              command |-> "defaultCommand"] >> >>

\* A registry without a default command, whose go has a default for every
\* parameter.
Configs2 ==
    << <<Go, [parameters |->
                << << <<"l">>, Parameter("boolean", Bool(TRUE)) >>,
                   << <<"s">>, Parameter("string", Str(<<"h","i">>)) >>,
                   << <<"a">>, Parameter("number", Num(7)) >> >>,
              command |-> "goCommand"] >> >>

Registries == {Configs1, Configs2}

\* The command-line elements a run is given after argv[0] and argv[1].
Tokens ==
    { Go,                                   \* go
      Default,                              \* default
      <<"n","o">>,                          \* no: a name no registry has
      <<"A","d","a">>,                      \* Ada
      <<"=","x">>,                          \* =x
      <<"-","-","s","=","A","d","a">>,      \* --s=Ada
      <<"-","-","l">>,                      \* --l
      <<"-","l">>,                          \* -l
      <<"-","-","l","=","Y","E","S">>,      \* --l=YES
      <<"-","-","a","=","4","2">>,          \* --a=42
      <<"-","-","a">>,                      \* --a
      <<"-","-","a","=","x">>,              \* --a=x
      <<"-","-","l","=","x">>,              \* --l=x
      <<"-","-","u">>                       \* --u: a name no command declares
    }

Node == <<"n","o","d","e">>
Bin == <<"b","i","n">>

Argvs ==
    { <<Node, Bin>> \o rest : rest \in UNION { [1..n -> Tokens] : n \in 0..MaxArgs } }

(* ------------------------------ the state ------------------------------ *)

VARIABLES
    argv,                  \* process.argv
    commandConfigs,        \* the registry given to run
    pc,                    \* the statement of run / getCommandExecutable to execute next
    commandName,           \* locals of getCommandExecutable ...
    commandLineArguments,
    commandConfig,
    rawArguments,
    examined,              \* indices getRawArguments matched against the patterns
    missingArguments,      \* locals of getCommandParameters
    unknownArguments,
    commandParameters,
    commandExecutable,     \* the parameters bound to the handler, once bound
    error,                 \* the error thrown, if any
    handlerCalls,          \* the calls of handlers so far, with their argument
    console,               \* what console.log was given
    exitCode,              \* 1 once process.exit(1) was called
    calls                  \* the methods getCommandExecutable called so far, and whether each threw

vars == <<argv, commandConfigs, pc, commandName, commandLineArguments, commandConfig,
          rawArguments, examined, missingArguments, unknownArguments, commandParameters,
          commandExecutable, error, handlerCalls, console, exitCode, calls>>

NoConfig == [parameters |-> EmptyObject, command |-> "none"]
NotBound == [bound |-> FALSE, command |-> "none", parameters |-> EmptyObject]

\* The record of one method call of getCommandExecutable.
Call(method, threw) == [method |-> method, threw |-> threw]

Init ==
    /\ argv \in Argvs
    /\ commandConfigs \in Registries
    /\ pc = "getCommandName"
    /\ commandName = <<>>
    /\ commandLineArguments = <<>>
    /\ commandConfig = NoConfig
    /\ rawArguments = EmptyObject
    /\ examined = <<>>
    /\ missingArguments = <<>>
    /\ unknownArguments = <<>>
    /\ commandParameters = EmptyObject
    /\ commandExecutable = NotBound
    /\ error = NoError
    /\ handlerCalls = <<>>
    /\ console = <<>>
    /\ exitCode = 0
    /\ calls = <<>>

\* const commandName = this.getCommandName(argv);
GetCommandName ==
    /\ pc = "getCommandName"
    /\ LET r == getCommandName(argv)
       IN  /\ calls' = Append(calls, Call("getCommandName", r.threw))
           /\ IF r.threw
              THEN /\ error' = r.error
                   /\ pc' = "catchParse"
                   /\ UNCHANGED commandName
              ELSE /\ commandName' = r.value
                   /\ pc' = "getCommandLineArguments"
                   /\ UNCHANGED error
    /\ UNCHANGED <<argv, commandConfigs, commandLineArguments, commandConfig, rawArguments,
                   examined, missingArguments, unknownArguments, commandParameters,
                   commandExecutable, handlerCalls, console, exitCode>>

\* const commandLineArguments = this.getCommandLineArguments(argv, commandName);
GetCommandLineArguments ==
    /\ pc = "getCommandLineArguments"
    /\ commandLineArguments' = getCommandLineArguments(argv, commandName)
    /\ pc' = "getCommandConfig"
    /\ calls' = Append(calls, Call("getCommandLineArguments", FALSE))
    /\ UNCHANGED <<argv, commandConfigs, commandName, commandConfig, rawArguments,
                   examined, missingArguments, unknownArguments, commandParameters,
                   commandExecutable, error, handlerCalls, console, exitCode>>

\* const commandConfig = this.getCommandConfig(commandName);
GetCommandConfig ==
    /\ pc = "getCommandConfig"
    /\ LET r == getCommandConfig(commandConfigs, commandName)
       IN  /\ calls' = Append(calls, Call("getCommandConfig", r.threw))
           /\ IF r.threw
              THEN /\ error' = r.error
                   /\ pc' = "catchParse"
                   /\ UNCHANGED commandConfig
              ELSE /\ commandConfig' = r.value
                   /\ pc' = "getRawArguments"
                   /\ UNCHANGED error
    /\ UNCHANGED <<argv, commandConfigs, commandName, commandLineArguments, rawArguments,
                   examined, missingArguments, unknownArguments, commandParameters,
                   commandExecutable, handlerCalls, console, exitCode>>

\* const rawArguments = this.getRawArguments(commandLineArguments);
GetRawArguments ==
    /\ pc = "getRawArguments"
    /\ LET r == getRawArguments(commandLineArguments)
       IN  /\ calls' = Append(calls, Call("getRawArguments", r.threw))
           /\ examined' = r.examined
           /\ IF r.threw
              THEN /\ error' = r.error
                   /\ pc' = "catchParse"
                   /\ UNCHANGED rawArguments
              ELSE /\ rawArguments' = r.value
                   /\ pc' = "getCommandParameters"
                   /\ UNCHANGED error
    /\ UNCHANGED <<argv, commandConfigs, commandName, commandLineArguments, commandConfig,
                   missingArguments, unknownArguments, commandParameters,
                   commandExecutable, handlerCalls, console, exitCode>>

\* const commandParameters = this.getCommandParameters(commandConfig.parameters, rawArguments);
GetCommandParameters ==
    /\ pc = "getCommandParameters"
    /\ LET r == getCommandParameters(commandConfig.parameters, rawArguments)
       IN  /\ calls' = Append(calls, Call("getCommandParameters", r.threw))
           /\ missingArguments' = r.missingArguments
           /\ unknownArguments' = r.unknownArguments
           /\ IF r.threw
              THEN /\ error' = r.error
                   /\ pc' = "catchParse"
                   /\ UNCHANGED commandParameters
              ELSE /\ commandParameters' = r.value
                   /\ pc' = "bind"
                   /\ UNCHANGED error
    /\ UNCHANGED <<argv, commandConfigs, commandName, commandLineArguments, commandConfig,
                   rawArguments, examined, commandExecutable, handlerCalls, console, exitCode>>

\* return commandConfig.command.bind(null, commandParameters);
Bind ==
    /\ pc = "bind"
    /\ commandExecutable' = [bound |-> TRUE, command |-> commandConfig.command,
                             parameters |-> commandParameters]
    /\ pc' = "execute"
    /\ UNCHANGED calls
    /\ UNCHANGED <<argv, commandConfigs, commandName, commandLineArguments, commandConfig,
                   rawArguments, examined, missingArguments, unknownArguments,
                   commandParameters, error, handlerCalls, console, exitCode>>

\* run's first catch: console.log(e.message); console.log(command.getUsageNotes());
\* process.exit(1);
CatchParse ==
    /\ pc = "catchParse"
    /\ console' = console \o <<error, [kind |-> "usageNotes"]>>
    /\ exitCode' = 1
    /\ pc' = "exited"
    /\ UNCHANGED calls
    /\ UNCHANGED <<argv, commandConfigs, commandName, commandLineArguments, commandConfig,
                   rawArguments, examined, missingArguments, unknownArguments,
                   commandParameters, commandExecutable, error, handlerCalls>>

\* return commandExecutable(); where the handler returns.
ExecuteReturns ==
    /\ pc = "execute"
    /\ handlerCalls' = Append(handlerCalls, [command |-> commandExecutable.command,
                                             parameters |-> commandExecutable.parameters])
    /\ pc' = "returned"
    /\ UNCHANGED calls
    /\ UNCHANGED <<argv, commandConfigs, commandName, commandLineArguments, commandConfig,
                   rawArguments, examined, missingArguments, unknownArguments,
                   commandParameters, commandExecutable, error, console, exitCode>>

\* return commandExecutable(); where the handler throws.
ExecuteThrows ==
    /\ pc = "execute"
    /\ handlerCalls' = Append(handlerCalls, [command |-> commandExecutable.command,
                                             parameters |-> commandExecutable.parameters])
    /\ error' = [kind |-> "HandlerError"]
    /\ pc' = "catchExecute"
    /\ UNCHANGED calls
    /\ UNCHANGED <<argv, commandConfigs, commandName, commandLineArguments, commandConfig,
                   rawArguments, examined, missingArguments, unknownArguments,
                   commandParameters, commandExecutable, console, exitCode>>

\* run's second catch: console.log(e); process.exit(1);
CatchExecute ==
    /\ pc = "catchExecute"
    /\ console' = Append(console, error)
    /\ exitCode' = 1
    /\ pc' = "exited"
    /\ UNCHANGED calls
    /\ UNCHANGED <<argv, commandConfigs, commandName, commandLineArguments, commandConfig,
                   rawArguments, examined, missingArguments, unknownArguments,
                   commandParameters, commandExecutable, error, handlerCalls>>

Next ==
    \/ GetCommandName
    \/ GetCommandLineArguments
    \/ GetCommandConfig
    \/ GetRawArguments
    \/ GetCommandParameters
    \/ Bind
    \/ CatchParse
    \/ ExecuteReturns
    \/ ExecuteThrows
    \/ CatchExecute

Spec == Init /\ [][Next]_vars

(* ------------------------------ properties ----------------------------- *)

\* The method was called and returned.
Succeeded(method) == \E i \in DOMAIN calls : calls[i] = Call(method, FALSE)

\* The method was called and threw.
Failed(method) == \E i \in DOMAIN calls : calls[i] = Call(method, TRUE)

Called(method) == Succeeded(method) \/ Failed(method)

\* The errors getCommandExecutable can throw.
ParseErrorKinds ==
    {"NoCommandName", "UnknownCommand", "InvalidArgument", "InvalidBoolean",
     "InvalidNumeric", "MissingArguments", "UnknownArguments"}

ConversionErrorKinds == {"InvalidBoolean", "InvalidNumeric"}

\* The <<name, parameter>> pairs the looked-up command declares.
Declared == Range(commandConfig.parameters)

\* The names an error message of getCommandParameters lists.
Listed(e) ==
    IF e.kind \in {"MissingArguments", "UnknownArguments"} THEN Range(e.names) ELSE {}

\* The element at index 2 of argv is absent or has one of the argument forms.
NoNameGiven == At(argv, 2) = Undefined \/ IsArgument(At(argv, 2).s)

\* The element at index 2 of argv has the form of a command name.
NameGiven == At(argv, 2) # Undefined /\ COMMAND_NAME_REGEXP(At(argv, 2).s)

\* C1: when getCommandParameters returns, every declared boolean parameter
\* whose raw argument is the no-value marker (null) is true in the result.
C1_FlagIsTrue ==
    Succeeded("getCommandParameters") =>
        \A d \in Declared :
            (d[2].type = "boolean" /\ Get(rawArguments, d[1]) = Null)
                => Get(commandParameters, d[1]) = Bool(TRUE)

C3_HandlerOnlyAfterSuccess ==
    [][ /\ (handlerCalls' # handlerCalls) =>
              /\ pc = "execute"
              /\ error = NoError
              /\ calls = <<Call("getCommandName", FALSE),
                           Call("getCommandLineArguments", FALSE),
                           Call("getCommandConfig", FALSE),
                           Call("getRawArguments", FALSE),
                           Call("getCommandParameters", FALSE)>>
              /\ missingArguments = <<>> /\ unknownArguments = <<>>
              /\ handlerCalls' = <<[command |-> commandConfig.command,
                                    parameters |-> commandParameters]>>
              /\ \A d \in Declared : Get(commandParameters, d[1]) # Undefined
        /\ (pc = "bind") => (handlerCalls' = handlerCalls)
        /\ (error'.kind \in ParseErrorKinds) => (handlerCalls' = <<>>)
        /\ (error.kind \in ParseErrorKinds) => (error' = error)
      ]_vars

C3_Witness ==
    /\ pc = "returned"
    /\ Len(handlerCalls) = 1
    /\ Len(handlerCalls[1].parameters) = 3
    /\ Len(rawArguments) >= 2

\* C4: once getCommandLineArguments returned for an argv whose element at
\* index 2 has the form of a command name, that element is the command name
\* and the arguments for the tokenizer are the elements from index 3 on.
C4_NameIsConsumed ==
    (NameGiven /\ Succeeded("getCommandLineArguments"))
        => /\ commandName = At(argv, 2).s
           /\ commandLineArguments = slice(argv, 3)

\* C5: once getCommandLineArguments returned for an argv whose element at
\* index 2 is absent or has an argument form, the command name is "default"
\* and the arguments for the tokenizer are the elements from index 2 on; and
\* --a=42 alone is tokenized to the raw arguments {a: "42"}.
C5_DefaultConsumesNothing ==
    (NoNameGiven /\ pc # "getCommandName")
        => /\ Succeeded("getCommandName")
           /\ commandName = Default
           /\ Succeeded("getCommandLineArguments")
                => /\ commandLineArguments = slice(argv, 2)
                   /\ (slice(argv, 2) = << <<"-","-","a","=","4","2">> >>
                        /\ Succeeded("getRawArguments"))
                         => rawArguments = << << <<"a">>, Str(<<"4","2">>) >> >>

C5_Witness ==
    /\ argv = <<Node, Bin, <<"-","-","a","=","4","2">> >>
    /\ commandName = Default
    /\ Succeeded("getRawArguments")
    /\ rawArguments = << << <<"a">>, Str(<<"4","2">>) >> >>

\* C6: for an argv whose element at index 2 is present and has neither the
\* form of a command name nor an argument form, getCommandName throws the
\* "No command name provided." error, no command name is set, and no other
\* method of getCommandExecutable is ever called.
C6_InvalidNameThrows ==
    (~NameGiven /\ ~NoNameGiven /\ pc # "getCommandName")
        => /\ error = NoCommandNameError
           /\ calls = <<Call("getCommandName", TRUE)>>
           /\ commandName = <<>>
           /\ commandConfig = NoConfig
           /\ handlerCalls = <<>>
           /\ pc \in {"catchParse", "exited"}

C6_Witness ==
    /\ At(argv, 2) = Str(<<"=","x">>)
    /\ Len(argv) > 3
    /\ error = NoCommandNameError
    /\ pc = "exited"

NeitherGivenNorDefaulted(d) ==
    Get(rawArguments, d[1]) = Undefined /\ d[2].defaultValue = Undefined

\* C8 as stated: when getCommandParameters was called, every declared
\* parameter with no raw argument and no default is listed by a "Missing
\* arguments" error.
C8_EveryTypeIsMissing ==
    Called("getCommandParameters") =>
        \A d \in Declared :
            NeitherGivenNorDefaulted(d)
                => error.kind = "MissingArguments" /\ d[1] \in Listed(error)

\* C8 amended: when getCommandParameters was called, every declared number or
\* string parameter with no raw argument and no default makes it fail: it is
\* among the missing names, and the error is the "Missing arguments" error
\* listing it unless a conversion error was thrown before; a boolean
\* parameter is never among the missing names.
C8_NumberOrStringIsMissing ==
    Called("getCommandParameters") =>
        \A d \in Declared :
            /\ (NeitherGivenNorDefaulted(d) /\ d[2].type # "boolean")
                  => /\ Failed("getCommandParameters")
                     /\ \/ error.kind \in ConversionErrorKinds
                        \/ /\ error.kind = "MissingArguments"
                           /\ d[1] \in Listed(error)
                           /\ d[1] \in Range(missingArguments)
            /\ d[2].type = "boolean" => d[1] \notin Range(missingArguments) \cup Listed(error)

\* The number a of the default command is missing and reported.
C8_Witness ==
    /\ commandName = Default
    /\ Failed("getCommandParameters")
    /\ Get(rawArguments, <<"a">>) = Undefined
    /\ error = MissingArgumentsError(<< <<"a">> >>)
    /\ rawArguments # EmptyObject

\* The declared parameter d has a default other than null and no raw argument.
OnlyDefaulted(d) ==
    /\ Get(rawArguments, d[1]) = Undefined
    /\ d[2].defaultValue \notin {Undefined, Null}

\* C9: when getCommandParameters returns, every declared parameter with a
\* non-null default and no raw argument has its default as value.
C9_DefaultIsKept ==
    Succeeded("getCommandParameters") =>
        \A d \in Declared :
            OnlyDefaulted(d) => Get(commandParameters, d[1]) = d[2].defaultValue

\* The boolean b, on by default, and the string t resolve to their defaults.
C9_Witness ==
    /\ Succeeded("getCommandParameters")
    /\ commandName = Default
    /\ \A n \in {<<"b">>, <<"t">>} : Get(rawArguments, n) = Undefined
    /\ Get(commandParameters, <<"b">>) = Bool(TRUE)
    /\ Get(commandParameters, <<"t">>) = Str(<<"h","i">>)

\* C10: a declared boolean parameter with no default and no raw argument is
\* never among the missing names, and is false when getCommandParameters
\* returns.
C10_BooleanIsFalse ==
    Called("getCommandParameters") =>
        \A d \in Declared :
            (d[2].type = "boolean" /\ NeitherGivenNorDefaulted(d))
                => /\ d[1] \notin Range(missingArguments) \cup Listed(error)
                   /\ Succeeded("getCommandParameters")
                        => Get(commandParameters, d[1]) = Bool(FALSE)

C10_Witness ==
    /\ Succeeded("getCommandParameters")
    /\ commandName = Go
    /\ Get(commandConfig.parameters, <<"l">>) = Parameter("boolean", Undefined)
    /\ Get(rawArguments, <<"l">>) = Undefined
    /\ Get(commandParameters, <<"l">>) = Bool(FALSE)

\* C11: when getCommandParameters returns, the keys of the object it returns
\* are exactly the declared parameter names, each once and each with a value
\* other than undefined; no name of the raw arguments that is not declared is
\* a key.
C11_KeysAreDeclaredNames ==
    Succeeded("getCommandParameters") =>
        /\ Range(Keys(commandParameters)) = Range(Keys(commandConfig.parameters))
        /\ Len(commandParameters) = Len(commandConfig.parameters)
        /\ \A d \in Declared : Get(commandParameters, d[1]) # Undefined
        /\ \A k \in Range(Keys(rawArguments)) :
              ~HasOwn(commandConfig.parameters, k) => ~HasOwn(commandParameters, k)

\* go of the first registry returned with s and l given and o left to its
\* null default.
C11_Witness ==
    /\ Succeeded("getCommandParameters")
    /\ Range(Keys(rawArguments)) = {<<"s">>, <<"l">>}
    /\ Range(Keys(commandParameters)) = {<<"s">>, <<"l">>, <<"o">>}
    /\ Get(commandParameters, <<"o">>) = Null

\* The element of commandLineArguments at index i, counted from 0.
ArgAt(i) == commandLineArguments[i + 1]

\* The indices, from 0, of the elements getRawArguments matched against the
\* patterns.
Scanned == Range(examined)

\* The element at index i matches neither pattern.
Malformed(i) == ~IsArgument(ArgAt(i))

\* C12: getRawArguments scans from left to right and throws exactly when an
\* element it scans matches neither pattern; the error names that element,
\* nothing after it is scanned, no raw arguments are returned,
\* getCommandParameters is never called and no list of missing or unknown
\* names is made.
C12_FirstMalformedAborts ==
    Called("getRawArguments") =>
        /\ \A j, k \in DOMAIN examined : j < k => examined[j] < examined[k]
        /\ Failed("getRawArguments") <=> \E i \in Scanned : Malformed(i)
        /\ \A i \in Scanned : Malformed(i) =>
              /\ error = InvalidArgumentError(ArgAt(i))
              /\ i = SetMax(Scanned)
              /\ \A j \in Scanned \ {i} : ~Malformed(j)
              /\ rawArguments = EmptyObject
              /\ ~Called("getCommandParameters")
              /\ missingArguments = <<>>
              /\ unknownArguments = <<>>
              /\ handlerCalls = <<>>
              /\ pc \in {"catchParse", "exited"}

\* The second element scanned is malformed and one more follows it, with
\* required parameters left without a value: --s=Ada =x --u.
C12_Witness ==
    /\ Failed("getRawArguments")
    /\ Len(commandLineArguments) = 3
    /\ examined = <<0, 1>>
    /\ Malformed(1)
    /\ IsArgument(ArgAt(2))
    /\ pc = "exited"
    /\ console[1] = InvalidArgumentError(ArgAt(1))

\* The element at index i is --name or -name, with no =value.
IsBare(i) == IsArgument(ArgAt(i)) /\ MatchArgument(ArgAt(i)).m2 = Undefined

\* The element at index i is --name=value.
HasValue(i) == IsArgument(ArgAt(i)) /\ MatchArgument(ArgAt(i)).m2 # Undefined

\* The argument name in the element at index i, which matches a pattern.
NameAt(i) == MatchArgument(ArgAt(i)).m1

\* An element follows the one at index i.
HasNext(i) == i + 2 <= Len(commandLineArguments)

\* The element at index i has no =value and the one after it matches neither
\* pattern.
TakesNext(i) == IsBare(i) /\ HasNext(i) /\ Malformed(i + 1)

\* No element scanned after the one at index i has the same argument name.
LastOf(i) ==
    \A j \in Scanned : j > i /\ IsArgument(ArgAt(j)) => NameAt(j) # NameAt(i)

\* What getRawArguments returned holds v under the name of the element at
\* index i, when it returned and no later element has that name.
Recorded(i, v) ==
    Succeeded("getRawArguments") /\ LastOf(i) => Get(rawArguments, NameAt(i)) = v

\* C13: every element that matches a pattern is scanned unless
\* getRawArguments throws first.  A scanned --name or -name followed by an
\* element matching neither pattern is recorded with that element as its
\* value, and that element is not scanned; any other scanned --name or -name
\* is recorded with null and the element after it is scanned; a scanned
\* --name=value is recorded with its own value and the element after it is
\* scanned.
C13_NextTokenIsTheValue ==
    Called("getRawArguments") =>
        /\ Succeeded("getRawArguments") =>
              \A i \in 0..(Len(commandLineArguments) - 1) :
                  IsArgument(ArgAt(i)) => i \in Scanned
        /\ \A i \in Scanned :
              /\ TakesNext(i) =>
                    /\ (i + 1) \notin Scanned
                    /\ Recorded(i, Str(ArgAt(i + 1)))
              /\ IsBare(i) /\ ~TakesNext(i) =>
                    /\ HasNext(i) => (i + 1) \in Scanned
                    /\ Recorded(i, Null)
              /\ HasValue(i) =>
                    /\ HasNext(i) => (i + 1) \in Scanned
                    /\ Recorded(i, MatchArgument(ArgAt(i)).m2)

\* -l no --a was read: no is the value of l and is not scanned, --a ends the
\* list and has no value.
C13_Witness ==
    /\ Succeeded("getRawArguments")
    /\ commandLineArguments = << <<"-","l">>, <<"n","o">>, <<"-","-","a">> >>
    /\ examined = <<0, 2>>
    /\ rawArguments = << <<<<"l">>, Str(<<"n","o">>)>>, <<<<"a">>, Null>> >>

\* The raw argument of the declared parameter d = <<name, parameter>> is a
\* string that is no boolean word (for a boolean) or that Number() turns into
\* NaN (for a number).
Uncoercible(d) ==
    /\ Get(rawArguments, d[1]) \notin {Undefined, Null}
    /\ \/ /\ d[2].type = "boolean"
          /\ ~includes(TrueWords, toLowerCase(Get(rawArguments, d[1]).s))
          /\ ~includes(FalseWords, toLowerCase(Get(rawArguments, d[1]).s))
       \/ /\ d[2].type = "number"
          /\ isNaN(Number(Get(rawArguments, d[1]).s))

\* The places, in the order of Object.entries, of the declared parameters
\* whose raw argument cannot be converted.
UncoerciblePlaces ==
    { k \in DOMAIN Entries(commandConfig.parameters) :
          Uncoercible(Entries(commandConfig.parameters)[k]) }

\* The conversion error for the declared parameter d.
ConversionErrorOf(d) ==
    IF d[2].type = "boolean"
    THEN InvalidBooleanError(d[1], Get(rawArguments, d[1]).s)
    ELSE InvalidNumericError(d[1], Get(rawArguments, d[1]).s)

\* C14: getCommandParameters throws a conversion error exactly when the raw
\* string of some declared parameter cannot be converted to its type; the
\* error is the one of the first such parameter in schema order and names
\* the parameter and the raw string, and it is thrown whatever parameters are
\* missing and whatever raw arguments are undeclared: no list of missing or
\* unknown names is made or reported and the handler is not called.
C14_ConversionErrorFirst ==
    Called("getCommandParameters") =>
        /\ UncoerciblePlaces # {} <=>
              Failed("getCommandParameters") /\ error.kind \in ConversionErrorKinds
        /\ UncoerciblePlaces # {} =>
              /\ error = ConversionErrorOf(
                             Entries(commandConfig.parameters)[SetMin(UncoerciblePlaces)])
              /\ error.kind \notin {"MissingArguments", "UnknownArguments"}
              /\ missingArguments = <<>>
              /\ unknownArguments = <<>>
              /\ handlerCalls = <<>>
              /\ pc \in {"catchParse", "exited"}
              /\ pc = "exited" => console[1] = error

\* go --l=x --u with the first registry: s, declared before l, has no value
\* and u is not declared, and the error reported is the one of l.
C14_Witness ==
    /\ Failed("getCommandParameters")
    /\ Keys(commandConfig.parameters) = << <<"s">>, <<"l">>, <<"o">> >>
    /\ Get(commandConfig.parameters, <<"s">>) = Parameter("string", Undefined)
    /\ Get(rawArguments, <<"s">>) = Undefined
    /\ Get(rawArguments, <<"u">>) = Null
    /\ Get(rawArguments, <<"l">>) = Str(<<"x">>)
    /\ pc = "exited"
    /\ console[1] = InvalidBooleanError(<<"l">>, <<"x">>)

\* The value the scanned element at index i gives its argument name: its
\* own =value, the element after it, or null.
ValueAt(i) ==
    IF HasValue(i) THEN MatchArgument(ArgAt(i)).m2
    ELSE IF TakesNext(i) THEN Str(ArgAt(i + 1))
    ELSE Null

\* The scanned elements at indices i < j have the same argument name.
SameName(i, j) ==
    /\ i < j
    /\ IsArgument(ArgAt(i))
    /\ IsArgument(ArgAt(j))
    /\ NameAt(i) = NameAt(j)

\* C15: an argument name scanned a second time, in either form, raises no
\* error: getRawArguments throws only for an element that matches neither
\* pattern.  When it returns, the name is a key once and its value is the
\* one of the last element scanned with that name; a --name=value followed
\* later by a last --name with nothing to take leaves null.
C15_LastOccurrenceWins ==
    Called("getRawArguments") =>
        \A i, j \in Scanned : SameName(i, j) =>
            /\ Failed("getRawArguments") =>
                  /\ Malformed(SetMax(Scanned))
                  /\ error = InvalidArgumentError(ArgAt(SetMax(Scanned)))
            /\ Succeeded("getRawArguments") =>
                  /\ Cardinality({ k \in DOMAIN rawArguments :
                                       rawArguments[k][1] = NameAt(j) }) = 1
                  /\ LastOf(j) => Get(rawArguments, NameAt(j)) = ValueAt(j)
                  /\ HasValue(i) /\ IsBare(j) /\ ~TakesNext(j) /\ LastOf(j) =>
                        Get(rawArguments, NameAt(j)) = Null

\* --a=42 --a was read and a is left with null.
C15_Witness ==
    /\ Succeeded("getRawArguments")
    /\ commandLineArguments = << <<"-","-","a","=","4","2">>, <<"-","-","a">> >>
    /\ examined = <<0, 1>>
    /\ rawArguments = << <<<<"a">>, Null>> >>

====
